---- MODULE Spec2Model ----
(***************************************************************************)
(* duckhist: the history store, the duplicate guard of Manager.AddCommand, *)
(* the HistoryQuery builder with its SQL evaluation, the query parser and  *)
(* the table the search session renders.                                   *)
(*                                                                         *)
(* Text (commands, directories, queries, search terms) is a sequence of    *)
(* one-character strings, so that LIKE, strings.Fields and strings.Split   *)
(* are computed character by character.                                    *)
(***************************************************************************)
EXTENDS Integers, Sequences, FiniteSets, TLC

VARIABLES store, proc, found, sess

vars == <<store, proc, found, sess>>

(***************************************************************************)
(* Bounds                                                                  *)
(***************************************************************************)
\* largest number of rows the store may hold
MaxRows == 2
\* largest number of space-separated words in a typed query
MaxWords == 3

(***************************************************************************)
(* Text                                                                    *)
(***************************************************************************)
\* ASCII case folding, as strings.ToUpper and SQLite's LIKE apply it
Upper(c) ==
    CASE c = "a" -> "A"
      [] c = "b" -> "B"
      [] c = "c" -> "C"
      [] c = "n" -> "N"
      [] c = "o" -> "O"
      [] c = "r" -> "R"
      [] c = "t" -> "T"
      [] OTHER -> c

ToUpper(s) == [i \in 1..Len(s) |-> Upper(s[i])]

\* s[from..] (1-based), empty when from is past the end
Drop(s, from) == SubSeq(s, from, Len(s))

\* strings.Contains(strings.ToUpper(s), strings.ToUpper(t))
ContainsFold(s, t) ==
    \E i \in 1..(Len(s) - Len(t) + 1) :
        ToUpper(SubSeq(s, i, i + Len(t) - 1)) = ToUpper(t)

\* SQLite's LIKE: % matches any run of characters, _ any one character,
\* every other character matches itself up to ASCII case; no escape character
RECURSIVE Like(_, _)
Like(text, pattern) ==
    IF pattern = <<>> THEN text = <<>>
    ELSE IF Head(pattern) = "%"
      THEN \/ Like(text, Tail(pattern))
           \/ (text # <<>> /\ Like(Tail(text), pattern))
    ELSE IF text = <<>> THEN FALSE
    ELSE IF Head(pattern) = "_" THEN Like(Tail(text), Tail(pattern))
    ELSE Upper(Head(text)) = Upper(Head(pattern)) /\ Like(Tail(text), Tail(pattern))

\* fmt.Sprintf("%%%s%%", term)
LikePattern(term) == <<"%">> \o term \o <<"%">>

(***************************************************************************)
(* Input domains                                                           *)
(***************************************************************************)
Procs == {"p1", "p2"}

Commands == { <<"a", "b">>, <<"A", "-", "c">> }

DirA == <<"/", "a">>

DirB == <<"/", "b">>

Dirs == {DirA, DirB}

Times == {10, 20}

\* os.Getwd() either yields a directory or fails
GetwdErr == <<"getwd-error">>

GetwdResults == Dirs \cup {GetwdErr}

\* the arguments of one AddCommand call
Call(command, directory, tty, sid, hostname, username, executedAt, noDedup) ==
    [command |-> command, directory |-> directory, tty |-> tty, sid |-> sid,
     hostname |-> hostname, username |-> username, executedAt |-> executedAt,
     noDedup |-> noDedup]

\* a recorded command and its variants: one argument differs from the first
\* call, or tty, sid and timestamp all do, or the directory is left to os.Getwd
KeyCalls ==
    { Call(<<"a", "b">>, DirA, "t1", "s1", <<"h", "1">>, "u1", 10, FALSE),
      Call(<<"A", "-", "c">>, DirA, "t1", "s1", <<"h", "1">>, "u1", 10, FALSE),
      Call(<<"a", "b">>, DirB, "t1", "s1", <<"h", "1">>, "u1", 10, FALSE),
      Call(<<"a", "b">>, DirA, "t2", "s1", <<"h", "1">>, "u1", 10, FALSE),
      Call(<<"a", "b">>, DirA, "t1", "s2", <<"h", "1">>, "u1", 10, FALSE),
      Call(<<"a", "b">>, DirA, "t1", "s1", <<"h", "2">>, "u1", 10, FALSE),
      Call(<<"a", "b">>, DirA, "t1", "s1", <<"h", "1">>, "u2", 10, FALSE),
      Call(<<"a", "b">>, DirA, "t1", "s1", <<"h", "1">>, "u1", 20, FALSE),
      Call(<<"a", "b">>, DirA, "t2", "s2", <<"h", "1">>, "u1", 20, FALSE),
      Call(<<"a", "b">>, <<>>, "t1", "s1", <<"h", "1">>, "u1", 10, FALSE) }

\* the calls of the insertion processes: each of them with and without --no-dedup
Calls == {[c EXCEPT !.noDedup = nd] : c \in KeyCalls, nd \in BOOLEAN}

(***************************************************************************)
(* The history table                                                       *)
(***************************************************************************)
\* type Entry: one row of the history table
Entry(id, command, ts, hostname, directory, username, tty, sid) ==
    [ID |-> id, Command |-> command, Timestamp |-> ts, Hostname |-> hostname,
     Directory |-> directory, Username |-> username, TTY |-> tty, SID |-> sid]

\* ulid.Make(): a fresh identifier that sorts after the identifiers made before
\* it (time-ordered, and monotonic within one millisecond of one process)
UlidMake(rows) == Cardinality(rows) + 1

\* an existence query that leaves executing_user out of its WHERE clause
isDuplicate_IgnoresUser(rows, command, directory, hostname, username) ==
    Cardinality({e \in rows : /\ e.Command = command
                              /\ e.Directory = directory
                              /\ e.Hostname = hostname}) > 0

(***************************************************************************)
(* Manager.isDuplicate: SELECT COUNT of rows WHERE command = ? AND         *)
(* executing_dir = ? AND executing_host = ? AND executing_user = ?         *)
(***************************************************************************)
isDuplicate(rows, command, directory, hostname, username) ==
    Cardinality({e \in rows : /\ e.Command = command
                              /\ e.Directory = directory
                              /\ e.Hostname = hostname
                              /\ e.Username = username}) > 0

(***************************************************************************)
(* Manager.AddCommand, as run by one insertion process.  The existence     *)
(* query and the INSERT are two statements on the shared store; the        *)
(* process is at "insert" between them and at "done" once the call has     *)
(* returned (isDup, err) to its caller.                                    *)
(***************************************************************************)
Idle == [pc |-> "idle"]

\* the call has returned (isDup, err) to its caller; directory is the value
\* of the local variable, checks counts the existence queries the call
\* executed, id is the identifier it inserted (0: nothing inserted)
Returned(c, directory, isDup, err, checks, id) ==
    [pc |-> "done", call |-> c, directory |-> directory, isDup |-> isDup,
     err |-> err, checks |-> checks, id |-> id]

\* the call is past the duplicate guard, about to generate the id and INSERT
AtInsert(c, directory, checks) ==
    [pc |-> "insert", call |-> c, directory |-> directory, checks |-> checks]

\* a guard that runs the existence query whatever noDedup says
AddCommandGuard_AlwaysChecks(rows, c, wd, dbOk) ==
    LET directory == IF c.directory = <<>> THEN wd ELSE c.directory
    IN  IF c.directory = <<>> /\ wd = GetwdErr
          THEN Returned(c, c.directory, FALSE, TRUE, 0, 0)
        ELSE IF ~dbOk
          THEN Returned(c, directory, FALSE, TRUE, 1, 0)
        ELSE IF ~c.noDedup /\ isDuplicate(rows, c.command, directory, c.hostname, c.username)
          THEN Returned(c, directory, TRUE, FALSE, 1, 0)
        ELSE AtInsert(c, directory, 1)

\* a guard that computes isDup and goes on to the INSERT all the same
AddCommandGuard_NoReturn(rows, c, wd, dbOk) ==
    LET directory == IF c.directory = <<>> THEN wd ELSE c.directory
    IN  IF c.directory = <<>> /\ wd = GetwdErr
          THEN Returned(c, c.directory, FALSE, TRUE, 0, 0)
        ELSE IF c.noDedup
          THEN AtInsert(c, directory, 0)
        ELSE IF ~dbOk
          THEN Returned(c, directory, FALSE, TRUE, 1, 0)
        ELSE AtInsert(c, directory, 1)

\* AddCommand up to the INSERT: resolve the directory (os.Getwd when it is
\* empty), then, unless noDedup, run isDuplicate and return (true, nil) on a hit
AddCommandGuard(rows, c, wd, dbOk) ==
    LET directory == IF c.directory = <<>> THEN wd ELSE c.directory
    IN  IF c.directory = <<>> /\ wd = GetwdErr
          THEN Returned(c, c.directory, FALSE, TRUE, 0, 0)
        ELSE IF c.noDedup
          THEN AtInsert(c, directory, 0)
        ELSE IF ~dbOk
          THEN Returned(c, directory, FALSE, TRUE, 1, 0)
        ELSE IF isDuplicate(rows, c.command, directory, c.hostname, c.username)
          THEN Returned(c, directory, TRUE, FALSE, 1, 0)
        ELSE AtInsert(c, directory, 1)

\* the row the INSERT statement of a call writes
NewEntry(id, st) ==
    Entry(id, st.call.command, st.call.executedAt, st.call.hostname,
          st.directory, st.call.username, st.call.tty, st.call.sid)

\* an INSERT that looks for the key again and gives way to a row that is there
AddCommandExec_Rechecks(rows, st, dbOk) ==
    IF ~dbOk
      THEN [rows |-> rows, ret |-> Returned(st.call, st.directory, FALSE, TRUE, st.checks, 0)]
    ELSE IF ~st.call.noDedup /\ isDuplicate(rows, st.call.command, st.directory,
                                            st.call.hostname, st.call.username)
      THEN [rows |-> rows, ret |-> Returned(st.call, st.directory, FALSE, FALSE, st.checks, 0)]
    ELSE [rows |-> rows \cup {NewEntry(UlidMake(rows), st)},
          ret |-> Returned(st.call, st.directory, FALSE, FALSE, st.checks, UlidMake(rows))]

\* an INSERT OR REPLACE on the dedup key: the new row takes the place of a
\* stored row with the same command, directory, hostname and username
AddCommandExec_Replaces(rows, st, dbOk) ==
    IF dbOk
      THEN [rows |-> {e \in rows : ~(/\ e.Command = st.call.command
                                      /\ e.Directory = st.directory
                                      /\ e.Hostname = st.call.hostname
                                      /\ e.Username = st.call.username)}
                       \cup {NewEntry(UlidMake(rows), st)},
            ret |-> Returned(st.call, st.directory, FALSE, FALSE, st.checks, UlidMake(rows))]
      ELSE [rows |-> rows,
            ret |-> Returned(st.call, st.directory, FALSE, TRUE, st.checks, 0)]

\* AddCommand from the INSERT on: id := ulid.Make(); db.Exec(INSERT ...);
\* return false, err
AddCommandExec(rows, st, dbOk) ==
    IF dbOk
      THEN [rows |-> rows \cup {NewEntry(UlidMake(rows), st)},
            ret |-> Returned(st.call, st.directory, FALSE, FALSE, st.checks, UlidMake(rows))]
      ELSE [rows |-> rows,
            ret |-> Returned(st.call, st.directory, FALSE, TRUE, st.checks, 0)]

\* an insertion process calls Manager.AddCommand: everything up to the INSERT
AddCommandBegin(p, c, wd, dbOk) ==
    /\ proc[p].pc = "idle"
    /\ proc' = [proc EXCEPT ![p] = AddCommandGuard(store, c, wd, dbOk)]
    /\ UNCHANGED <<store, found, sess>>

\* the INSERT statement of the call and its return
AddCommandInsert(p, dbOk) ==
    /\ proc[p].pc = "insert"
    /\ LET r == AddCommandExec(store, proc[p], dbOk)
       IN  /\ Cardinality(r.rows) <= MaxRows
           /\ store' = r.rows
           /\ proc' = [proc EXCEPT ![p] = r.ret]
    /\ UNCHANGED <<found, sess>>

\* the insertion process exits; the next invocation is a new process
ProcExit(p) ==
    /\ proc[p].pc = "done"
    /\ proc' = [proc EXCEPT ![p] = Idle]
    /\ UNCHANGED <<store, found, sess>>

NoFind == [op |-> "none"]

NoSession == [state |-> "none"]

Init ==
    /\ store = {}
    /\ proc = [p \in Procs |-> Idle]
    /\ found = NoFind
    /\ sess = NoSession

(***************************************************************************)
(* Spec: one shell records commands, one AddCommand call after the other.  *)
(***************************************************************************)
AddBeginStep ==
    \E c \in Calls, wd \in GetwdResults, dbOk \in BOOLEAN :
        AddCommandBegin("p1", c, wd, dbOk)

AddInsertStep == \E dbOk \in BOOLEAN : AddCommandInsert("p1", dbOk)

ExitStep == ProcExit("p1")

Next == AddBeginStep \/ AddInsertStep \/ ExitStep

Spec == Init /\ [][Next]_vars

(***************************************************************************)
(* HistoryQuery: the builder accumulates SQL text (conditions, orderBy)    *)
(* and, separately, the positional arguments of its placeholders.  One     *)
(* condition is kept as the text's structure: OR-groups of AND-ed atoms,   *)
(* each atom "column operator ?".                                          *)
(***************************************************************************)
Atom(col, op) == [col |-> col, op |-> op]

OrderById == "id DESC"

OrderByCase == "CASE WHEN executing_dir = ? THEN 0 ELSE 1 END, id DESC"

\* Manager.Query
Query == [conditions |-> <<>>, args |-> <<>>, orderBy |-> OrderById, limit |-> <<>>]

\* HistoryQuery.InDirectory
InDirectory(q, dir) ==
    [q EXCEPT !.conditions = Append(@, << <<Atom("executing_dir", "=")>> >>),
              !.args = Append(@, dir)]

\* HistoryQuery.NotInDirectory
NotInDirectory(q, dir) ==
    [q EXCEPT !.conditions = Append(@, << <<Atom("executing_dir", "!=")>> >>),
              !.args = Append(@, dir)]

\* HistoryQuery.SearchSimple
SearchSimple(q, term) ==
    [q EXCEPT !.conditions = Append(@, << <<Atom("command", "LIKE")>> >>),
              !.args = Append(@, LikePattern(term))]

\* the atoms and arguments of one AND group of SearchComplex
AndConditions(andGroup) ==
    [i \in 1..Len(andGroup) |->
        Atom("command", IF andGroup[i].IsNegated THEN "NOT LIKE" ELSE "LIKE")]

AndArgs(andGroup) == [i \in 1..Len(andGroup) |-> LikePattern(andGroup[i].Term)]

RECURSIVE OrConditions(_)
OrConditions(parsedQuery) ==
    IF parsedQuery = <<>> THEN <<>>
    ELSE IF Len(Head(parsedQuery)) = 0 THEN OrConditions(Tail(parsedQuery))
    ELSE <<AndConditions(Head(parsedQuery))>> \o OrConditions(Tail(parsedQuery))

RECURSIVE OrArgs(_)
OrArgs(parsedQuery) ==
    IF parsedQuery = <<>> THEN <<>>
    ELSE AndArgs(Head(parsedQuery)) \o OrArgs(Tail(parsedQuery))

\* a SearchComplex whose negated terms get LIKE as well
SearchComplex_NotIgnored(q, parsedQuery) ==
    IF Len(parsedQuery) = 0 THEN q
    ELSE [q EXCEPT !.conditions =
                      Append(@, [g \in 1..Len(parsedQuery) |->
                                   [i \in 1..Len(parsedQuery[g]) |-> Atom("command", "LIKE")]]),
                   !.args = @ \o OrArgs(parsedQuery)]

\* HistoryQuery.SearchComplex: one condition "(a AND b) OR (c)" for the
\* parsed query, its LIKE patterns appended to the arguments
SearchComplex(q, parsedQuery) ==
    IF Len(parsedQuery) = 0 THEN q
    ELSE IF Len(OrConditions(parsedQuery)) > 0
      THEN [q EXCEPT !.conditions = Append(@, OrConditions(parsedQuery)),
                     !.args = @ \o OrArgs(parsedQuery)]
    ELSE q

\* HistoryQuery.Limit
Limit(q, n) == [q EXCEPT !.limit = <<n>>]

\* an ordering that forgets the directory key
OrderByCurrentDirFirst_IdOnly(q, dir) == q

\* HistoryQuery.OrderByCurrentDirFirst
OrderByCurrentDirFirst(q, dir) ==
    [q EXCEPT !.orderBy = OrderByCase, !.args = Append(@, dir)]

(***************************************************************************)
(* HistoryQuery.GetEntries: the SQL statement is assembled as              *)
(* SELECT ... [WHERE c1 AND c2 ...] ORDER BY orderBy [LIMIT ?] and run     *)
(* with q.args (the limit appended last); placeholders take the arguments  *)
(* by position.                                                            *)
(***************************************************************************)
RECURSIVE Flatten(_)
Flatten(ss) == IF ss = <<>> THEN <<>> ELSE Head(ss) \o Flatten(Tail(ss))

\* the number of placeholders in the conditions before condition k
RECURSIVE PlaceholdersBefore(_, _)
PlaceholdersBefore(conditions, k) ==
    IF k <= 1 THEN 0
    ELSE PlaceholdersBefore(conditions, k - 1) + Len(Flatten(conditions[k - 1]))

\* an evaluation that reads the command for every column but executing_dir
EvalAtom_NoHostColumn(atom, arg, e) ==
    LET value == IF atom.col = "executing_dir" THEN e.Directory ELSE e.Command
    IN  CASE atom.op = "="        -> value = arg
          [] atom.op = "!="       -> value # arg
          [] atom.op = "LIKE"     -> Like(value, arg)
          [] atom.op = "NOT LIKE" -> ~Like(value, arg)

\* the value of "column operator ?" for row e with the placeholder bound to arg
EvalAtom(atom, arg, e) ==
    LET value == CASE atom.col = "executing_dir"  -> e.Directory
                   [] atom.col = "executing_host" -> e.Hostname
                   [] OTHER                       -> e.Command
    IN  CASE atom.op = "="        -> value = arg
          [] atom.op = "!="       -> value # arg
          [] atom.op = "LIKE"     -> Like(value, arg)
          [] atom.op = "NOT LIKE" -> ~Like(value, arg)

\* one condition: some OR-group has all its atoms true; the placeholders of
\* the condition are args[base+1], args[base+2], ... in textual order
EvalCondition(groups, args, base, e) ==
    \E g \in 1..Len(groups) :
        \A i \in 1..Len(groups[g]) :
            EvalAtom(groups[g][i],
                     args[base + Len(Flatten(SubSeq(groups, 1, g - 1))) + i], e)

EvalWhere(conditions, args, e) ==
    \A k \in 1..Len(conditions) :
        EvalCondition(conditions[k], args, PlaceholdersBefore(conditions, k), e)

\* rows by id, largest first
RECURSIVE SortIdDesc(_)
SortIdDesc(rows) ==
    IF rows = {} THEN <<>>
    ELSE LET m == CHOOSE e \in rows : \A f \in rows : f.ID <= e.ID
         IN  <<m>> \o SortIdDesc(rows \ {m})

\* ORDER BY orderBy
OrderRows(rows, orderBy, arg) ==
    IF orderBy = OrderByCase
      THEN SortIdDesc({e \in rows : e.Directory = arg})
             \o SortIdDesc({e \in rows : e.Directory # arg})
      ELSE SortIdDesc(rows)

Result(entries, err) == [entries |-> entries, err |-> err]

GetEntries(q, rows, dbOk) ==
    LET args == IF q.limit # <<>> THEN Append(q.args, q.limit[1]) ELSE q.args
        nWhere == PlaceholdersBefore(q.conditions, Len(q.conditions) + 1)
        nOrder == IF q.orderBy = OrderByCase THEN 1 ELSE 0
    IN  IF ~dbOk \/ Len(args) # nWhere + nOrder + Len(q.limit)
          THEN Result(<<>>, TRUE)
          ELSE LET matching == {e \in rows : EvalWhere(q.conditions, args, e)}
                   ordered == OrderRows(matching, q.orderBy,
                                        IF nOrder = 1 THEN args[nWhere + 1] ELSE <<>>)
               IN  IF q.limit = <<>> \/ Len(ordered) <= args[Len(args)]
                     THEN Result(ordered, FALSE)
                     ELSE Result(SubSeq(ordered, 1, args[Len(args)]), FALSE)

\* Manager.FindHistory
FindHistory(rows, currentDir, limit, dbOk) ==
    IF limit # <<>>
      THEN GetEntries(Limit(OrderByCurrentDirFirst(Query, currentDir), limit[1]), rows, dbOk)
      ELSE GetEntries(OrderByCurrentDirFirst(Query, currentDir), rows, dbOk)

(***************************************************************************)
(* ParseSearchQuery                                                        *)
(***************************************************************************)
\* type SearchTermCondition
SearchTermCondition(term, isNegated) == [Term |-> term, IsNegated |-> isNegated]

\* strings.Split(s, sep) for a non-empty sep
RECURSIVE Split(_, _)
Split(s, sep) ==
    LET hits == {i \in 1..(Len(s) - Len(sep) + 1) : SubSeq(s, i, i + Len(sep) - 1) = sep}
    IN  IF hits = {} THEN <<s>>
        ELSE LET i == CHOOSE h \in hits : \A k \in hits : h <= k
             IN  <<SubSeq(s, 1, i - 1)>> \o Split(Drop(s, i + Len(sep)), sep)

\* strings.Fields(s): the maximal runs of non-space characters
RECURSIVE Fields(_)
Fields(s) ==
    IF s = <<>> THEN <<>>
    ELSE IF Head(s) = " " THEN Fields(Tail(s))
    ELSE LET stops == {i \in 1..Len(s) : s[i] = " "}
             n == IF stops = {} THEN Len(s)
                  ELSE (CHOOSE h \in stops : \A k \in stops : h <= k) - 1
         IN  <<SubSeq(s, 1, n)>> \o Fields(Drop(s, n + 1))

KeywordNot == <<"N", "O", "T">>

SepOr == <<" ", "O", "R", " ">>

\* the loop over andParts with a trailing NOT left out
RECURSIVE ParseAndParts_DropsTrailingNot(_, _)
ParseAndParts_DropsTrailingNot(andParts, i) ==
    IF i > Len(andParts) THEN <<>>
    ELSE IF ToUpper(andParts[i]) = KeywordNot
      THEN IF i + 1 <= Len(andParts)
             THEN <<SearchTermCondition(andParts[i + 1], TRUE)>>
                    \o ParseAndParts_DropsTrailingNot(andParts, i + 2)
             ELSE <<>>
    ELSE <<SearchTermCondition(andParts[i], FALSE)>>
           \o ParseAndParts_DropsTrailingNot(andParts, i + 1)

\* the loop over andParts from index i on
RECURSIVE ParseAndParts(_, _)
ParseAndParts(andParts, i) ==
    IF i > Len(andParts) THEN <<>>
    ELSE IF ToUpper(andParts[i]) = KeywordNot
      THEN IF i + 1 <= Len(andParts)
             THEN <<SearchTermCondition(andParts[i + 1], TRUE)>>
                    \o ParseAndParts(andParts, i + 2)
             ELSE <<SearchTermCondition(andParts[i], FALSE)>>
                    \o ParseAndParts(andParts, i + 1)
    ELSE <<SearchTermCondition(andParts[i], FALSE)>> \o ParseAndParts(andParts, i + 1)

\* the loop over orParts: groups without conditions are left out
RECURSIVE ParseOrParts(_)
ParseOrParts(orParts) ==
    IF orParts = <<>> THEN <<>>
    ELSE LET conditions == ParseAndParts(Fields(Head(orParts)), 1)
         IN  (IF Len(conditions) > 0 THEN <<conditions>> ELSE <<>>)
               \o ParseOrParts(Tail(orParts))

ParseSearchQuery(query) ==
    IF query = <<>> THEN <<>> ELSE ParseOrParts(Split(query, SepOr))

\* a FindByCommand without the early return for a query that parses to nothing
FindByCommand_NoEarlyReturn(rows, query, currentDir, dbOk) ==
    IF query = <<>> THEN FindHistory(rows, currentDir, <<>>, dbOk)
    ELSE GetEntries(OrderByCurrentDirFirst(SearchComplex(Query, ParseSearchQuery(query)),
                                           currentDir), rows, dbOk)

\* Manager.FindByCommand
FindByCommand(rows, query, currentDir, dbOk) ==
    IF query = <<>> THEN FindHistory(rows, currentDir, <<>>, dbOk)
    ELSE IF Len(ParseSearchQuery(query)) = 0 THEN Result(<<>>, FALSE)
    ELSE GetEntries(OrderByCurrentDirFirst(SearchComplex(Query, ParseSearchQuery(query)),
                                           currentDir), rows, dbOk)

(***************************************************************************)
(* SpecRace: two shells record the same command at the same time.          *)
(***************************************************************************)
RaceCalls ==
    { Call(<<"a", "b">>, DirA, "t1", "s1", <<"h", "1">>, "u1", 10, FALSE),
      Call(<<"a", "b">>, DirA, "t2", "s2", <<"h", "1">>, "u1", 20, FALSE),
      Call(<<"a", "b">>, DirB, "t1", "s1", <<"h", "1">>, "u1", 10, TRUE) }

RaceBeginStep ==
    \E p \in Procs, c \in RaceCalls, dbOk \in BOOLEAN :
        AddCommandBegin(p, c, DirA, dbOk)

RaceInsertStep == \E p \in Procs, dbOk \in BOOLEAN : AddCommandInsert(p, dbOk)

RaceExitStep == \E p \in Procs : ProcExit(p)

NextRace == RaceBeginStep \/ RaceInsertStep \/ RaceExitStep

SpecRace == Init /\ [][NextRace]_vars

(***************************************************************************)
(* The duplicate guard                                                     *)
(***************************************************************************)
\* the dedup key of a stored row equals that of a call's candidate
SameKey(e, st) ==
    /\ e.Command = st.call.command
    /\ e.Directory = st.directory
    /\ e.Hostname = st.call.hostname
    /\ e.Username = st.call.username

\* process p leaves the duplicate guard in this step
GuardStep(p) == proc[p].pc = "idle" /\ proc'[p].pc # "idle"

\* the call of process p returns in this step
ReturnStep(p) == proc[p].pc # "done" /\ proc'[p].pc = "done"

\* C1: with dedup enabled and a non-empty directory argument, AddCommand
\* reports duplicate = true exactly when the store holds a row with the same
\* command, directory, hostname and username, whatever the tty, sid and
\* timestamp of the candidate and of the rows; a call that goes on to the
\* INSERT reports false.
C1_DedupExact ==
    [][\A p \in Procs :
         /\ ( /\ GuardStep(p)
              /\ ~proc'[p].call.noDedup
              /\ proc'[p].call.directory # <<>>
              /\ ~(proc'[p].pc = "done" /\ proc'[p].err) )
            => ( (proc'[p].pc = "done" /\ proc'[p].isDup)
                   <=> (\E e \in store : SameKey(e, proc'[p])) )
         /\ (proc[p].pc = "insert" /\ ReturnStep(p)) => ~proc'[p].isDup
      ]_vars

\* a duplicate was reported although a row of the same key differs from the
\* candidate in tty, in sid and in timestamp
C1_Witness ==
    \E p \in Procs :
        /\ proc[p].pc = "done" /\ proc[p].isDup /\ ~proc[p].call.noDedup
        /\ \E e \in store : /\ SameKey(e, proc[p])
                             /\ e.TTY # proc[p].call.tty
                             /\ e.SID # proc[p].call.sid
                             /\ e.Timestamp # proc[p].call.executedAt

\* C2: a dedup-enabled call whose candidate duplicates a stored row returns
\* duplicate = true and leaves the set of stored rows as it was.
C2_DuplicateNotInserted ==
    [][\A p \in Procs :
         ( /\ ReturnStep(p)
           /\ ~proc'[p].call.noDedup
           /\ ~proc'[p].err
           /\ \E e \in store : SameKey(e, proc'[p]) )
         => (store' = store /\ proc'[p].isDup /\ proc'[p].id = 0)
      ]_vars

\* a duplicate was turned away from a store that holds rows
C2_Witness ==
    \E p \in Procs :
        /\ proc[p].pc = "done" /\ proc[p].isDup /\ ~proc[p].call.noDedup
        /\ Cardinality(store) = 2

\* C3: with noDedup the existence query is never executed, and a call that
\* returns without error has added exactly one row, the candidate's.
C3_BypassAlwaysInserts ==
    [][\A p \in Procs :
         /\ (proc'[p].pc # "idle" /\ proc'[p].call.noDedup) => proc'[p].checks = 0
         /\ (ReturnStep(p) /\ proc'[p].call.noDedup /\ ~proc'[p].err)
            => /\ proc[p].pc = "insert"
               /\ store' = store \cup {NewEntry(proc'[p].id, proc'[p])}
               /\ Cardinality(store') = Cardinality(store) + 1
      ]_vars

\* a bypassing call has inserted a row whose key the store already held
C3_Witness ==
    \E p \in Procs :
        /\ proc[p].pc = "done" /\ proc[p].call.noDedup /\ ~proc[p].err
        /\ \E e \in store : e.ID = proc[p].id
        /\ \E e \in store : e.ID # proc[p].id /\ SameKey(e, proc[p])

\* C4: a bypassing call whose key is already stored inserts its row and
\* reports duplicate = true to its caller.
C4_BypassReportsDuplicate ==
    \A p \in Procs :
        ( /\ proc[p].pc = "done" /\ proc[p].call.noDedup /\ ~proc[p].err
          /\ \E e \in store : e.ID # proc[p].id /\ SameKey(e, proc[p]) )
        => ( /\ \E e \in store : e.ID = proc[p].id
             /\ proc[p].isDup )

\* C5: nothing ties the existence query to the INSERT: a call that has passed
\* the guard inserts its row and reports (false, nil) whatever the other
\* process has inserted since.
C5_CheckThenInsertNotAtomic ==
    [][\A p \in Procs :
         (proc[p].pc = "insert" /\ ReturnStep(p) /\ ~proc'[p].err)
         => ( /\ ~proc'[p].isDup
              /\ proc'[p].id # 0
              /\ store' = store \cup {NewEntry(proc'[p].id, proc'[p])}
              /\ store' # store )
      ]_vars

\* both processes ran the guard on a store without the key, both reported
\* duplicate = false, and the store holds two rows of one dedup key
C5_Witness ==
    /\ \A p \in Procs :
         /\ proc[p].pc = "done" /\ ~proc[p].call.noDedup
         /\ ~proc[p].isDup /\ ~proc[p].err /\ proc[p].checks = 1
         /\ \E e \in store : e.ID = proc[p].id /\ SameKey(e, proc[p])
    /\ proc["p1"].id # proc["p2"].id
    /\ \A e \in store : SameKey(e, proc["p1"]) /\ SameKey(e, proc["p2"])
    /\ Cardinality(store) = 2

(***************************************************************************)
(* SpecFind: FindHistory and FindByCommand applied to a store of up to     *)
(* MaxRows rows, for the typed queries below.                              *)
(***************************************************************************)
\* the rows of the stores searched: every command in every directory
FindCalls ==
    {Call(command, dir, "t1", "s1", <<"h", "1">>, "u1", 10, TRUE) :
        command \in Commands, dir \in Dirs}

\* the stores AddCommand builds with n calls out of FindCalls
RECURSIVE StoresOf(_)
StoresOf(n) ==
    IF n = 0 THEN {{}}
    ELSE {AddCommandExec(rows, AtInsert(c, c.directory, 0), TRUE).rows :
             rows \in StoresOf(n - 1), c \in FindCalls}

Stores == UNION {StoresOf(n) : n \in 0..MaxRows}

\* the words a query is typed from
Words == { <<"a">>, <<"B">>, <<"a", "_", "c">>, <<"N", "O", "T">>, <<"O", "R">> }

RECURSIVE JoinWords(_)
JoinWords(ws) ==
    IF Len(ws) = 1 THEN ws[1] ELSE ws[1] \o <<" ">> \o JoinWords(Tail(ws))

\* texts with leading, trailing and doubled spaces, and lower-case keywords
OddQueries ==
    { <<>>, <<" ">>, <<" ", " ">>, <<" ", "O", "R", " ">>,
      <<" ", "a", " ", " ", "B", " ">>, <<"n", "o", "t", " ", "a">>,
      <<"a", " ", "o", "r", " ", "B">> }

Queries ==
    {JoinWords(ws) : ws \in UNION {[1..n -> Words] : n \in 1..MaxWords}} \cup OddQueries

Limits == {<<>>} \cup {<<n>> : n \in 0..MaxRows}

Found(op, query, currentDir, limit, r) ==
    [op |-> op, query |-> query, currentDir |-> currentDir, limit |-> limit,
     entries |-> r.entries, err |-> r.err]

InitFind ==
    /\ store \in Stores
    /\ proc = [p \in Procs |-> Idle]
    /\ found = NoFind
    /\ sess = NoSession

FindByCommandStep ==
    \E query \in Queries, currentDir \in Dirs, dbOk \in BOOLEAN :
        /\ found = NoFind
        /\ found' = Found("FindByCommand", query, currentDir, <<>>,
                          FindByCommand(store, query, currentDir, dbOk))
        /\ UNCHANGED <<store, proc, sess>>

FindHistoryStep ==
    \E currentDir \in Dirs, limit \in Limits, dbOk \in BOOLEAN :
        /\ found = NoFind
        /\ found' = Found("FindHistory", <<>>, currentDir, limit,
                          FindHistory(store, currentDir, limit, dbOk))
        /\ UNCHANGED <<store, proc, sess>>

NextFind == FindByCommandStep \/ FindHistoryStep

SpecFind == InitFind /\ [][NextFind]_vars

(***************************************************************************)
(* Ordering and filtering                                                  *)
(***************************************************************************)
Range(f) == {f[i] : i \in 1..Len(f)}

\* no row of another directory stands before a row of directory dir
CurrentDirFirst(entries, dir) ==
    \A i, j \in 1..Len(entries) :
        (i < j /\ entries[j].Directory = dir) => entries[i].Directory = dir

\* C6: the list FindHistory and FindByCommand return has every row of
\* currentDir before every row of another directory.
C6_CurrentDirFirst ==
    (found.op # "none" /\ ~found.err)
        => CurrentDirFirst(found.entries, found.currentDir)

\* a search returned rows of both kinds, the newest of them from elsewhere
C6_Witness ==
    /\ found.op = "FindByCommand" /\ found.query # <<>> /\ ~found.err
    /\ \E i, j \in 1..Len(found.entries) :
          /\ found.entries[i].Directory = found.currentDir
          /\ found.entries[j].Directory # found.currentDir
          /\ found.entries[j].ID > found.entries[i].ID

\* the condition as the specification reads it: the command contains the
\* term, up to case, unless the condition is negated
Satisfies(e, condition) ==
    ContainsFold(e.Command, condition.Term) # condition.IsNegated

\* C8: for a query with at least one condition FindByCommand returns exactly
\* the rows for which some OR-group has all its conditions satisfied.
C8_ExactlyTheMatchingRows ==
    ( /\ found.op = "FindByCommand" /\ ~found.err
      /\ Len(ParseSearchQuery(found.query)) > 0 )
    => Range(found.entries) =
         {e \in store :
            \E g \in Range(ParseSearchQuery(found.query)) :
               \A condition \in Range(g) : Satisfies(e, condition)}

\* C9: a row is returned for the negated condition exactly when it is not
\* returned for the same term without the negation.
C9_NegationLaw ==
    ( /\ found.op = "FindByCommand" /\ ~found.err
      /\ Len(ParseSearchQuery(found.query)) = 1
      /\ Len(ParseSearchQuery(found.query)[1]) = 1 )
    => LET c == ParseSearchQuery(found.query)[1][1]
           opposite == GetEntries(
                         OrderByCurrentDirFirst(
                           SearchComplex(Query,
                             << <<SearchTermCondition(c.Term, ~c.IsNegated)>> >>),
                           found.currentDir), store, TRUE)
       IN  /\ Range(found.entries) \cap Range(opposite.entries) = {}
           /\ Range(found.entries) \cup Range(opposite.entries) = store

\* a negated term kept some rows and turned others away
C9_Witness ==
    /\ found.op = "FindByCommand" /\ ~found.err
    /\ found.query = <<"N", "O", "T", " ", "B">>
    /\ found.entries # <<>>
    /\ Range(found.entries) # store

\* the whole history in its order: every row once, those of dir first, each
\* part by id, largest first
FullOrderedHistory(entries, rows, dir) ==
    /\ Len(entries) = Cardinality(rows)
    /\ Range(entries) = rows
    /\ CurrentDirFirst(entries, dir)
    /\ \A i, j \in 1..Len(entries) :
          (i < j /\ (entries[i].Directory = dir <=> entries[j].Directory = dir))
             => entries[i].ID > entries[j].ID

\* C10 as stated: a query without conditions, empty or not, returns the
\* full ordered history.
C10_NoConditionReturnsAll ==
    ( /\ found.op = "FindByCommand" /\ ~found.err
      /\ Len(ParseSearchQuery(found.query)) = 0 )
    => FullOrderedHistory(found.entries, store, found.currentDir)

\* C10 amended: the empty string returns the full ordered history; a
\* non-empty text without conditions returns no row.
C10_EmptyStringOnlyReturnsAll ==
    ( /\ found.op = "FindByCommand" /\ ~found.err
      /\ Len(ParseSearchQuery(found.query)) = 0 )
    => IF found.query = <<>>
         THEN FullOrderedHistory(found.entries, store, found.currentDir)
         ELSE found.entries = <<>>

\* a text of spaces searched a store that holds rows
C10_Witness ==
    /\ found.op = "FindByCommand" /\ ~found.err
    /\ found.query = <<" ", " ">>
    /\ Cardinality(store) = MaxRows
    /\ found.entries = <<>>

(***************************************************************************)
(* The search session (runSearch): allHistory is read at the start,        *)
(* updateTable fills the table for the text of the input field, the key    *)
(* handler moves the selection, prints and stops.  A table row is kept as  *)
(* the entry its cells were rendered from (cell 2 shows its Command, the   *)
(* reference of cell 1 is its Directory); row 0 is the header, so table[r] *)
(* is row r and GetRowCount is Len(table) + 1.  event is the handler that  *)
(* ran last, storeRead tells whether it queried the store and err whether  *)
(* that query returned an error.                                           *)
(***************************************************************************)
Reverse(f) == [i \in 1..Len(f) |-> f[Len(f) - i + 1]]

\* an updateTable whose error ends the session
updateTable_ErrorStops(s, rows, query, dbOk) ==
    LET r == FindByCommand(rows, query, s.currentDir, dbOk)
        entries == IF query = <<>> THEN s.allHistory
                   ELSE IF r.err THEN <<>> ELSE r.entries
    IN  [s EXCEPT !.query = query,
                  !.table = Reverse(entries),
                  !.selected = IF Len(entries) > 0 THEN Len(entries) ELSE @,
                  !.storeRead = (query # <<>>),
                  !.err = (query # <<>> /\ r.err),
                  !.state = IF query # <<>> /\ r.err THEN "failed" ELSE @]

\* an updateTable that asks the store for the empty text as well
updateTable_AlwaysQueries(s, rows, query, dbOk) ==
    LET r == FindByCommand(rows, query, s.currentDir, dbOk)
        entries == IF r.err THEN <<>> ELSE r.entries
    IN  [s EXCEPT !.query = query,
                  !.table = Reverse(entries),
                  !.selected = IF Len(entries) > 0 THEN Len(entries) ELSE @,
                  !.storeRead = (query # <<>>),
                  !.err = (query # <<>> /\ r.err)]

\* an updateTable that leaves the selection where it was
updateTable_KeepsSelection(s, rows, query, dbOk) ==
    LET r == FindByCommand(rows, query, s.currentDir, dbOk)
        entries == IF query = <<>> THEN s.allHistory
                   ELSE IF r.err THEN <<>> ELSE r.entries
    IN  [s EXCEPT !.query = query,
                  !.table = Reverse(entries),
                  !.storeRead = (query # <<>>),
                  !.err = (query # <<>> /\ r.err)]

\* updateTable(query): the entries to show, added last entry first, and the
\* last row selected when there is one
updateTable(s, rows, query, dbOk) ==
    LET r == FindByCommand(rows, query, s.currentDir, dbOk)
        entries == IF query = <<>> THEN s.allHistory
                   ELSE IF r.err THEN <<>> ELSE r.entries
    IN  [s EXCEPT !.query = query,
                  !.table = Reverse(entries),
                  !.selected = IF Len(entries) > 0 THEN Len(entries) ELSE @,
                  !.storeRead = (query # <<>>),
                  !.err = (query # <<>> /\ r.err)]

\* runSearch has returned an error before app.Run; handle tells whether the
\* store handle was never opened ("none") or has been closed
Failed(failure, handle) ==
    [state |-> "failed", failure |-> failure, event |-> "load",
     handle |-> handle, ret |-> "error"]

\* a start whose Close is not deferred: the error returns leave the handle open
runSearchStart_NoDefer(rows, dirFlag, wd, openOk, dbOk) ==
    LET currentDir == IF dirFlag = <<>> THEN wd ELSE dirFlag
        r == FindHistory(rows, currentDir, <<>>, dbOk)
    IN  IF ~openOk THEN Failed("open", "none")
        ELSE IF currentDir = GetwdErr THEN Failed("getwd", "open")
        ELSE IF r.err THEN Failed("load", "open")
        ELSE [updateTable([state |-> "ready", currentDir |-> currentDir,
                           allHistory |-> r.entries, query |-> <<>>,
                           table |-> <<>>, selected |-> 0,
                           output |-> <<>>, event |-> "load",
                           storeRead |-> TRUE, err |-> FALSE,
                           failure |-> "none", handle |-> "open", ret |-> "none"],
                          rows, <<>>, dbOk)
                EXCEPT !.storeRead = TRUE]

\* runSearch up to app.Run: open the store read-only and defer its Close,
\* resolve the current directory, load allHistory, fill the table for the
\* empty text; every error return runs the deferred Close
runSearchStart(rows, dirFlag, wd, openOk, dbOk) ==
    LET currentDir == IF dirFlag = <<>> THEN wd ELSE dirFlag
        r == FindHistory(rows, currentDir, <<>>, dbOk)
    IN  IF ~openOk THEN Failed("open", "none")
        ELSE IF currentDir = GetwdErr THEN Failed("getwd", "closed")
        ELSE IF r.err THEN Failed("load", "closed")
        ELSE [updateTable([state |-> "ready", currentDir |-> currentDir,
                           allHistory |-> r.entries, query |-> <<>>,
                           table |-> <<>>, selected |-> 0,
                           output |-> <<>>, event |-> "load",
                           storeRead |-> TRUE, err |-> FALSE,
                           failure |-> "none", handle |-> "open", ret |-> "none"],
                          rows, <<>>, dbOk)
                EXCEPT !.storeRead = TRUE]

runSearchLoad(dirFlag, wd, openOk, dbOk) ==
    /\ sess.state = "none"
    /\ sess' = runSearchStart(store, dirFlag, wd, openOk, dbOk)
    /\ UNCHANGED <<store, proc, found>>

\* app.Run returns an error (the screen cannot be set up): runSearch returns
\* it, the deferred Close runs
runFailed(s) ==
    [s EXCEPT !.state = "failed", !.failure = "run", !.ret = "error", !.handle = "closed"]

\* app.Run has returned nil after app.Stop: runSearch returns nil, the
\* deferred Close runs
runReturned(s) == [s EXCEPT !.ret = "nil", !.handle = "closed"]

\* input.SetChangedFunc: the text of the input field has changed
inputChanged(text, dbOk) ==
    /\ sess.state = "ready"
    /\ text # sess.query
    /\ sess' = [updateTable(sess, store, text, dbOk) EXCEPT !.event = "edit"]
    /\ UNCHANGED <<store, proc, found>>


\* the line Tab prints for row r
CdLine(s, r) == <<"c", "d", " ">> \o s.table[r].Directory \o <<";">> \o s.table[r].Command

\* a Tab that prints the directory of the first row
keyTab_FirstRowDirectory(s) ==
    IF Len(s.table) + 1 > 1
      THEN [s EXCEPT !.state = "selected", !.event = "tab", !.storeRead = FALSE,
                     !.output = Append(@, <<"c", "d", " ">> \o s.table[1].Directory
                                             \o <<";">> \o s.table[s.selected].Command)]
      ELSE [s EXCEPT !.event = "tab", !.storeRead = FALSE]

\* case tcell.KeyTab
keyTab(s) ==
    IF Len(s.table) + 1 > 1
      THEN [s EXCEPT !.state = "selected", !.event = "tab", !.storeRead = FALSE,
                     !.output = Append(@, CdLine(s, s.selected))]
      ELSE [s EXCEPT !.event = "tab", !.storeRead = FALSE]

\* an Enter that prints the last row whatever the selection
keyEnter_LastRow(s) ==
    IF Len(s.table) + 1 > 1
      THEN [s EXCEPT !.state = "selected", !.event = "enter", !.storeRead = FALSE,
                     !.output = Append(@, s.table[Len(s.table)].Command)]
      ELSE [s EXCEPT !.event = "enter", !.storeRead = FALSE]

\* an Enter that stops the application whether the table has rows or not
keyEnter_StopsOnEmptyView(s) ==
    IF Len(s.table) + 1 > 1
      THEN [s EXCEPT !.state = "selected", !.event = "enter", !.storeRead = FALSE,
                     !.output = Append(@, s.table[s.selected].Command)]
      ELSE [s EXCEPT !.state = "selected", !.event = "enter", !.storeRead = FALSE]

\* case tcell.KeyEnter
keyEnter(s) ==
    IF Len(s.table) + 1 > 1
      THEN [s EXCEPT !.state = "selected", !.event = "enter", !.storeRead = FALSE,
                     !.output = Append(@, s.table[s.selected].Command)]
      ELSE [s EXCEPT !.event = "enter", !.storeRead = FALSE]

\* an Esc that prints the selected command before it stops
keyEsc_Prints(s) ==
    [s EXCEPT !.state = "cancelled", !.event = "esc", !.storeRead = FALSE,
              !.output = IF Len(s.table) > 0 THEN Append(@, s.table[s.selected].Command)
                         ELSE @]

\* case tcell.KeyEsc
keyEsc(s) == [s EXCEPT !.state = "cancelled", !.event = "esc", !.storeRead = FALSE]

\* an Up that goes from the first row to the last
keyUp_Wraps(s) ==
    [s EXCEPT !.event = "up", !.storeRead = FALSE,
              !.selected = IF @ > 1 THEN @ - 1 ELSE Len(s.table)]

\* case tcell.KeyUp
keyUp(s) ==
    [s EXCEPT !.event = "up", !.storeRead = FALSE,
              !.selected = IF @ > 1 THEN @ - 1 ELSE @]

\* case tcell.KeyDown
keyDown(s) ==
    [s EXCEPT !.event = "down", !.storeRead = FALSE,
              !.selected = IF @ < (Len(s.table) + 1) - 1 THEN @ + 1 ELSE @]

\* app.SetInputCapture: one key event while the application runs
KeyEvent(handled) ==
    /\ sess.state = "ready"
    /\ sess' = handled
    /\ UNCHANGED <<store, proc, found>>

LoadStep ==
    \E dirFlag \in Dirs \cup {<<>>}, wd \in GetwdResults, openOk \in BOOLEAN,
       dbOk \in BOOLEAN :
        runSearchLoad(dirFlag, wd, openOk, dbOk)

RunFailedStep ==
    /\ sess.state = "ready" /\ sess.event = "load"
    /\ sess' = runFailed(sess)
    /\ UNCHANGED <<store, proc, found>>

RunReturnedStep ==
    /\ sess.state \in {"selected", "cancelled"} /\ sess.ret = "none"
    /\ sess' = runReturned(sess)
    /\ UNCHANGED <<store, proc, found>>

\* texts of the input field
Texts ==
    { <<>>, <<" ">>, <<"a">>, <<"B">>, <<"a", "_", "c">>,
      <<"N", "O", "T", " ", "B">>, <<"a", " ", "O", "R", " ", "B">> }

ChangedStep == \E text \in Texts, dbOk \in BOOLEAN : inputChanged(text, dbOk)

TabStep == KeyEvent(keyTab(sess))

EnterStep == KeyEvent(keyEnter(sess))

EscStep == KeyEvent(keyEsc(sess))

UpStep == KeyEvent(keyUp(sess))

DownStep == KeyEvent(keyDown(sess))

NextSearch ==
    \/ LoadStep
    \/ ChangedStep
    \/ TabStep
    \/ EnterStep
    \/ EscStep
    \/ UpStep
    \/ DownStep
    \/ RunFailedStep
    \/ RunReturnedStep

SpecSearch == InitFind /\ [][NextSearch]_vars

\* the session's filteredView and fullSnapshot: the entries updateTable
\* rendered, in the order of the list it walked, and the list read at the start
filteredView == Reverse(sess.table)

fullSnapshot == sess.allHistory

\* C7: in the table, read from the top, the rows of the current directory
\* come before the rows of other directories, and each of the two groups is
\* in ascending id order.
C7_TableCurrentDirOnTop ==
    sess.state = "ready"
    => \A i, j \in 1..Len(sess.table) :
          i < j =>
            /\ sess.table[j].Directory = sess.currentDir
                  => sess.table[i].Directory = sess.currentDir
            /\ ((sess.table[i].Directory = sess.currentDir)
                   <=> (sess.table[j].Directory = sess.currentDir))
                  => sess.table[i].ID < sess.table[j].ID

(***************************************************************************)
(* HistoryQuery.Search with field qualifiers: the raw text is a sequence   *)
(* of whitespace-separated expressions, each field:value or a bare or      *)
(* quoted term; a text that does not parse is searched for as a whole in   *)
(* the command column.                                                     *)
(***************************************************************************)
Quote == "\""

Colon == ":"

\* the column a recognized field name stands for; <<>> for any other name
FieldColumn(name) ==
    CASE name = <<"c", "o", "m", "m", "a", "n", "d">>                -> "command"
      [] name = <<"d", "i", "r">>                                    -> "executing_dir"
      [] name = <<"d", "i", "r", "e", "c", "t", "o", "r", "y">>      -> "executing_dir"
      [] name = <<"h", "o", "s", "t">>                               -> "executing_host"
      [] name = <<"h", "o", "s", "t", "n", "a", "m", "e">>           -> "executing_host"
      [] OTHER                                                       -> ""

\* the expressions of the text from character i on: spaces outside quotes
\* separate them, a quote left open is a lexical failure
RECURSIVE ScanExpressions(_, _, _, _)
ScanExpressions(raw, i, cur, inQuote) ==
    IF i > Len(raw)
      THEN IF inQuote THEN [ok |-> FALSE, exprs |-> <<>>]
           ELSE [ok |-> TRUE, exprs |-> IF cur = <<>> THEN <<>> ELSE <<cur>>]
    ELSE IF raw[i] = " " /\ ~inQuote
      THEN LET rest == ScanExpressions(raw, i + 1, <<>>, FALSE)
           IN  [rest EXCEPT !.exprs = (IF cur = <<>> THEN <<>> ELSE <<cur>>) \o @]
    ELSE ScanExpressions(raw, i + 1, Append(cur, raw[i]),
                         IF raw[i] = Quote THEN ~inQuote ELSE inQuote)

\* a quoted value without its quotes
Unquote(v) ==
    IF Len(v) >= 2 /\ v[1] = Quote /\ v[Len(v)] = Quote
      THEN SubSeq(v, 2, Len(v) - 1) ELSE v

KqlCondition(col, term) == [ok |-> TRUE, col |-> col, term |-> term]

KqlFailure == [ok |-> FALSE, col |-> "command", term |-> <<>>]

\* one expression: field:value when the text before the first colon is a
\* recognized field name (a missing value is a failure), a term otherwise
ParseExpression(x) ==
    LET colons == {i \in 1..Len(x) : x[i] = Colon}
        p == IF colons = {} THEN 0 ELSE CHOOSE i \in colons : \A k \in colons : i <= k
        col == IF p = 0 THEN "" ELSE FieldColumn(SubSeq(x, 1, p - 1))
    IN  IF col = "" THEN KqlCondition("command", Unquote(x))
        ELSE IF p = Len(x) THEN KqlFailure
        ELSE KqlCondition(col, Unquote(Drop(x, p + 1)))

\* parse(raw): the conditions in the order typed, or the failure; a
\* condition whose term is empty is dropped
ParseKQL(raw) ==
    LET scanned == ScanExpressions(raw, 1, <<>>, FALSE)
        parsed == [i \in 1..Len(scanned.exprs) |-> ParseExpression(scanned.exprs[i])]
    IN  IF ~scanned.ok \/ \E i \in 1..Len(parsed) : ~parsed[i].ok
          THEN [ok |-> FALSE, conditions |-> <<>>]
          ELSE [ok |-> TRUE,
                conditions |-> SelectSeq(parsed, LAMBDA c : c.term # <<>>)]

\* the conditions of a parsed text appended to the builder, one by one
RECURSIVE AppendConditions(_, _)
AppendConditions(q, conditions) ==
    IF conditions = <<>> THEN q
    ELSE AppendConditions(
           [q EXCEPT !.conditions = Append(@, << <<Atom(Head(conditions).col, "LIKE")>> >>),
                     !.args = Append(@, LikePattern(Head(conditions).term))],
           Tail(conditions))

\* HistoryQuery.Search(term)
Search(q, term) ==
    IF term = <<>> THEN q
    ELSE IF ~ParseKQL(term).ok
      THEN [q EXCEPT !.conditions = Append(@, << <<Atom("command", "LIKE")>> >>),
                     !.args = Append(@, LikePattern(term))]
    ELSE AppendConditions(q, ParseKQL(term).conditions)

\* Manager.FindByCommand on top of Search
FindByCommandKQL(rows, query, currentDir, dbOk) ==
    IF query = <<>> THEN FindHistory(rows, currentDir, <<>>, dbOk)
    ELSE GetEntries(OrderByCurrentDirFirst(Search(Query, query), currentDir), rows, dbOk)

(***************************************************************************)
(* SpecKQL: stores of rows that differ in command, directory and host, and *)
(* one search with a text of the field-qualifier grammar.                  *)
(***************************************************************************)
KqlCommands == { <<"a", "b">>, <<Quote, "-", "c">> }

KqlHosts == { <<"h", "1">>, <<"h", "2">> }

KqlCalls ==
    {Call(command, dir, "t1", "s1", host, "u1", 10, TRUE) :
        command \in KqlCommands, dir \in Dirs, host \in KqlHosts}

RECURSIVE KqlStoresOf(_)
KqlStoresOf(n) ==
    IF n = 0 THEN {{}}
    ELSE {AddCommandExec(rows, AtInsert(c, c.directory, 0), TRUE).rows :
             rows \in KqlStoresOf(n - 1), c \in KqlCalls}

KqlStores == UNION {KqlStoresOf(n) : n \in 0..MaxRows}

\* texts that parse
KqlTexts ==
    { <<"a", "b">>,
      <<"c", "o", "m", "m", "a", "n", "d", ":", "a", "b">>,
      <<"d", "i", "r", ":", "/", "b">>,
      <<"d", "i", "r", "e", "c", "t", "o", "r", "y", ":", "/", "b">>,
      <<"h", "o", "s", "t", ":", "h", "2">>,
      <<"h", "o", "s", "t", "n", "a", "m", "e", ":", "h", "2">>,
      <<"b", " ", "d", "i", "r", ":", "/", "a">>,
      <<"d", "i", "r", ":", "/", "a", " ", " ", "h", "o", "s", "t", ":", "1", " ", "a">>,
      <<"h", "o", "s", "t", ":", "h", " ", "d", "i", "r", ":", "b">>,
      <<"x", ":", "b">>,
      <<Quote, "a", "b", Quote>>,
      <<"d", "i", "r", ":", Quote, "/", "a", Quote>>,
      <<Quote, Quote, " ", "-">> }

\* texts that do not parse: a quote left open, a field without a value
KqlBadTexts ==
    { <<Quote, "a", "b">>,
      <<Quote, "_", "c">>,
      <<"a", " ", Quote, "b", " ", "c">>,
      <<"d", "i", "r", ":">>,
      <<"a", "b", " ", "h", "o", "s", "t", ":">>,
      <<"c", "o", "m", "m", "a", "n", "d", ":", " ", "a", "b">> }

InitKQL ==
    /\ store \in KqlStores
    /\ proc = [p \in Procs |-> Idle]
    /\ found = NoFind
    /\ sess = NoSession

SearchStep ==
    \E query \in KqlTexts \cup KqlBadTexts, currentDir \in Dirs, dbOk \in BOOLEAN :
        /\ found = NoFind
        /\ found' = [Found("Search", query, currentDir, <<>>,
                           FindByCommandKQL(store, query, currentDir, dbOk))
                       EXCEPT !.limit = <<>>] @@ [dbOk |-> dbOk]
        /\ UNCHANGED <<store, proc, sess>>

NextKQL == SearchStep

SpecKQL == InitKQL /\ [][NextKQL]_vars

\* C11: a text that does not parse does not make the search fail; the rows
\* returned are exactly the rows whose command contains the whole raw text
\* as a literal substring, whatever their directory and host.
C11_ParseFailureFallsBackToLiteral ==
    (found.op = "Search" /\ found.dbOk /\ ~ParseKQL(found.query).ok)
        => /\ ~found.err
           /\ Range(found.entries) = {e \in store : ContainsFold(e.Command, found.query)}

\* what each text of KqlTexts asks for, expression by expression: the field
\* of the entry and the term it has to contain
KqlExpected(text) ==
    CASE text = <<"a", "b">> -> << <<"command", <<"a", "b">> >> >>
      [] text = <<"c", "o", "m", "m", "a", "n", "d", ":", "a", "b">>
                             -> << <<"command", <<"a", "b">> >> >>
      [] text = <<"d", "i", "r", ":", "/", "b">>
                             -> << <<"directory", <<"/", "b">> >> >>
      [] text = <<"d", "i", "r", "e", "c", "t", "o", "r", "y", ":", "/", "b">>
                             -> << <<"directory", <<"/", "b">> >> >>
      [] text = <<"h", "o", "s", "t", ":", "h", "2">>
                             -> << <<"hostname", <<"h", "2">> >> >>
      [] text = <<"h", "o", "s", "t", "n", "a", "m", "e", ":", "h", "2">>
                             -> << <<"hostname", <<"h", "2">> >> >>
      [] text = <<"b", " ", "d", "i", "r", ":", "/", "a">>
                             -> << <<"command", <<"b">> >>, <<"directory", <<"/", "a">> >> >>
      [] text = <<"d", "i", "r", ":", "/", "a", " ", " ", "h", "o", "s", "t", ":", "1", " ", "a">>
                             -> << <<"directory", <<"/", "a">> >>, <<"hostname", <<"1">> >>,
                                   <<"command", <<"a">> >> >>
      [] text = <<"h", "o", "s", "t", ":", "h", " ", "d", "i", "r", ":", "b">>
                             -> << <<"hostname", <<"h">> >>, <<"directory", <<"b">> >> >>
      [] text = <<"x", ":", "b">>
                             -> << <<"command", <<"x", ":", "b">> >> >>
      [] text = <<Quote, "a", "b", Quote>>
                             -> << <<"command", <<"a", "b">> >> >>
      [] text = <<"d", "i", "r", ":", Quote, "/", "a", Quote>>
                             -> << <<"directory", <<"/", "a">> >> >>
      [] text = <<Quote, Quote, " ", "-">>
                             -> << <<"command", <<"-">> >> >>

FieldOf(e, field) ==
    CASE field = "directory" -> e.Directory
      [] field = "hostname"  -> e.Hostname
      [] field = "command"   -> e.Command

ColumnOf(field) ==
    CASE field = "directory" -> "executing_dir"
      [] field = "hostname"  -> "executing_host"
      [] field = "command"   -> "command"

\* the text with its leading dir: or host: spelled directory: or hostname:
LongSpelling(text) ==
    IF Len(text) > 4 /\ SubSeq(text, 1, 4) = <<"d", "i", "r", ":">>
      THEN <<"d", "i", "r", "e", "c", "t", "o", "r", "y", ":">> \o Drop(text, 5)
    ELSE IF Len(text) > 5 /\ SubSeq(text, 1, 5) = <<"h", "o", "s", "t", ":">>
      THEN <<"h", "o", "s", "t", "n", "a", "m", "e", ":">> \o Drop(text, 6)
    ELSE text

C13_NoStoreReadAfterLoad ==
    (sess.state \in {"ready", "selected", "cancelled"} /\ sess.event # "load")
        => ~sess.storeRead

(***************************************************************************)
(* SpecSearchLive: a search session and, in another process, duckhist add  *)
(* recording commands while the session runs.                              *)
(***************************************************************************)
LiveBeginStep ==
    \E c \in FindCalls, noDedup \in BOOLEAN :
        AddCommandBegin("p1", [c EXCEPT !.noDedup = noDedup], DirA, TRUE)

LiveInsertStep == AddCommandInsert("p1", TRUE)

NextSearchLive ==
    \/ LoadStep
    \/ ChangedStep
    \/ LiveBeginStep
    \/ LiveInsertStep
    \/ ExitStep

SpecSearchLive == InitFind /\ [][NextSearchLive]_vars

\* a is b with some elements left out, the others in b's order
RECURSIVE IsSubsequence(_, _)
IsSubsequence(a, b) ==
    IF a = <<>> THEN TRUE
    ELSE IF b = <<>> THEN FALSE
    ELSE IF Head(a) = Head(b) THEN IsSubsequence(Tail(a), Tail(b))
    ELSE IsSubsequence(a, Tail(b))

\* C14: at every point of a session, also while other processes add entries
\* to the store, filteredView is an order-preserving subsequence of
\* fullSnapshot.
C14_ViewIsSubsequenceOfSnapshot ==
    sess.state = "ready" => IsSubsequence(filteredView, fullSnapshot)

\* C15: whenever the text is empty, at the start and after the typed text has
\* been deleted, filteredView equals fullSnapshot element for element, and no
\* step of the session changes fullSnapshot.
C15_EmptyTextShowsSnapshot ==
    [][/\ (sess'.state = "ready" /\ sess'.query = <<>>)
             => Reverse(sess'.table) = sess'.allHistory
       /\ sess.state = "ready" => sess'.allHistory = sess.allHistory]_vars

\* the text has been deleted after a row was added to the store behind the
\* session's back: the view is the snapshot, without the new row
C15_Witness ==
    /\ sess.state = "ready" /\ sess.event = "edit" /\ sess.query = <<>>
    /\ Len(sess.allHistory) = 1
    /\ Cardinality(store) = 2
    /\ filteredView = fullSnapshot

\* C16: after every recomputation of the view, the initial one and one for
\* every edit of the text, the selection is the last row of the view when the
\* view has rows, wherever it was before; when the view has no row the
\* selection is no row of it.
C16_RecomputationSelectsLastRow ==
    [][(sess'.state = "ready" /\ sess'.event \in {"load", "edit"})
          => IF Len(sess'.table) > 0
               THEN sess'.selected = Len(sess'.table)
               ELSE sess'.selected \notin 1..Len(sess'.table)]_vars

\* an edit has reduced a view of two rows to one row, and that row is selected
C16_Witness ==
    /\ sess.state = "ready" /\ sess.event = "edit" /\ sess.query # <<>>
    /\ Len(sess.allHistory) = 2
    /\ Len(sess.table) = 1
    /\ sess.selected = 1

\* C17: whenever the view has rows the selection is one of them, never the
\* header and never past the last row; Up on the first row and Down on the
\* last row leave the selection where it is, and on every other row they
\* move it by exactly one row.
C17_SelectionStaysInTheView ==
    [][/\ (sess'.state = "ready" /\ Len(sess'.table) > 0)
             => sess'.selected \in 1..Len(sess'.table)
       /\ (sess.state = "ready" /\ Len(sess.table) > 0 /\ sess' # sess
              /\ sess'.event = "up")
             => /\ sess'.table = sess.table
                /\ sess'.selected = IF sess.selected = 1 THEN 1 ELSE sess.selected - 1
       /\ (sess.state = "ready" /\ Len(sess.table) > 0 /\ sess' # sess
              /\ sess'.event = "down")
             => /\ sess'.table = sess.table
                /\ sess'.selected = IF sess.selected = Len(sess.table)
                                      THEN sess.selected ELSE sess.selected + 1]_vars

\* Up has moved the selection from the second row of two to the first
C17_Witness ==
    /\ sess.state = "ready" /\ sess.event = "up"
    /\ Len(sess.table) = 2
    /\ sess.selected = 1

\* C18: Enter on a view with rows writes exactly the command text of the
\* selected row, once, and the session is Selected; the text is that of the
\* selected row and of no other.
C18_EnterWritesSelectedCommand ==
    [][(sess.state = "ready" /\ Len(sess.table) > 0 /\ sess' # sess
           /\ sess'.event = "enter")
          => /\ sess'.state = "selected"
             /\ sess'.output = <<sess.table[sess.selected].Command>>
             /\ sess'.table = sess.table
             /\ sess'.selected = sess.selected]_vars

\* Enter on the first of two rows with different commands has written the
\* command of the first row
C18_Witness ==
    /\ sess.state = "selected" /\ sess.event = "enter"
    /\ Len(sess.table) = 2
    /\ sess.selected = 1
    /\ sess.table[1].Command # sess.table[2].Command
    /\ sess.output = <<sess.table[1].Command>>

C20_TerminalStates ==
    [][/\ (sess.state = "ready" /\ sess' # sess /\ sess'.event = "esc")
             => (sess'.state = "cancelled" /\ sess'.output = sess.output)
       /\ sess'.state = "selected" => Len(sess'.output) = 1
       /\ sess'.state \in {"ready", "cancelled"} => Len(sess'.output) = 0
       /\ sess.state \in {"selected", "cancelled"}
             => /\ sess'.state = sess.state
                /\ sess'.table = sess.table
                /\ sess'.selected = sess.selected
                /\ sess'.output = sess.output]_vars

\* Esc after an edit that left rows in the view: Cancelled, nothing written
C20_Witness ==
    /\ sess.state = "cancelled" /\ sess.event = "esc"
    /\ sess.query # <<>>
    /\ Len(sess.table) > 0
    /\ sess.output = <<>>

\* C21: when the query for a keystroke fails, the session goes on: the view
\* is empty for that keystroke, the session stays ready and has written
\* nothing, and an edit whose query succeeds shows its normal result.
C21_QueryErrorGivesEmptyView ==
    [][(sess.state = "ready" /\ sess' # sess /\ sess'.event = "edit")
          => IF sess'.err
               THEN /\ sess'.state = "ready"
                    /\ sess'.table = <<>>
                    /\ sess'.output = <<>>
                    /\ sess'.allHistory = sess.allHistory
               ELSE /\ sess'.state = "ready"
                    /\ Reverse(sess'.table) =
                          IF sess'.query = <<>> THEN sess.allHistory
                          ELSE FindByCommand(store, sess'.query, sess.currentDir, TRUE).entries]_vars

\* the query of a keystroke has failed on a store of two rows: no row is
\* shown and the session is ready
C21_Witness ==
    /\ sess.state = "ready" /\ sess.event = "edit" /\ sess.err
    /\ Len(sess.allHistory) = 2
    /\ sess.table = <<>>

\* C22: on every way out of a session whose store handle was opened (a
\* selection, a cancellation, no current directory, a failed load of the
\* snapshot, an error of the user interface) the handle is closed when the
\* command returns; a failed load ends the session with an error at once:
\* nothing is retried and no input event is handled.
C22_HandleClosedOnEveryExit ==
    [][/\ (sess'.state # "none" /\ sess'.ret # "none" /\ sess'.failure # "open")
             => sess'.handle = "closed"
       /\ (sess'.state = "failed" /\ sess'.failure = "load")
             => (sess.state \in {"none", "failed"} /\ sess'.ret = "error"
                   /\ sess'.event = "load")
       /\ sess.state = "failed" => sess' = sess]_vars

\* the load of the snapshot has failed: the command has returned the error
\* and the handle is closed
C22_Witness ==
    /\ sess.state = "failed" /\ sess.failure = "load"
    /\ store # {}
    /\ sess.ret = "error"
    /\ sess.handle = "closed"

\* C23: the store only grows: over any AddCommand calls, with or without
\* dedup, and any search session, every stored entry stays in the store with
\* all its fields as they were, and no step of a session adds, changes or
\* removes an entry.
C23_StoreIsAppendOnly ==
    [][/\ store \subseteq store'
       /\ sess' # sess => store' = store]_vars

\* a row was added while the session was running: the row the session had
\* loaded is still in the store, unchanged
C23_Witness ==
    /\ sess.state = "ready"
    /\ Len(sess.allHistory) = 1
    /\ Cardinality(store) = 2
    /\ sess.allHistory[1] \in store


(***************************************************************************)
(* import-history (cmd/importhistory.go): one AddCommand call for every    *)
(* line of ~/.zsh_history that carries a command                           *)
(***************************************************************************)
\* largest number of lines of a history file
MaxLines == 2

\* strings.TrimSpace
RECURSIVE TrimSpace(_)
TrimSpace(s) ==
    IF s = <<>> THEN s
    ELSE IF Head(s) = " " THEN TrimSpace(Tail(s))
    ELSE IF s[Len(s)] = " " THEN TrimSpace(SubSeq(s, 1, Len(s) - 1))
    ELSE s

\* strings.SplitN(s, sep, 2): cut at the first separator only
SplitN2(s, sep) ==
    LET hits == {i \in 1..(Len(s) - Len(sep) + 1) : SubSeq(s, i, i + Len(sep) - 1) = sep}
    IN  IF hits = {} THEN <<s>>
        ELSE LET i == CHOOSE h \in hits : \A k \in hits : h <= k
             IN  <<SubSeq(s, 1, i - 1), Drop(s, i + Len(sep))>>

Digits == {"0", "1", "2", "3", "4", "5", "6", "7", "8", "9"}

DigitValue(c) ==
    CASE c = "0" -> 0 [] c = "1" -> 1 [] c = "2" -> 2 [] c = "3" -> 3
      [] c = "4" -> 4 [] c = "5" -> 5 [] c = "6" -> 6 [] c = "7" -> 7
      [] c = "8" -> 8 [] c = "9" -> 9

RECURSIVE DecimalValue(_)
DecimalValue(s) ==
    IF s = <<>> THEN 0
    ELSE 10 * DecimalValue(SubSeq(s, 1, Len(s) - 1)) + DigitValue(s[Len(s)])

\* strconv.ParseInt(s, 10, 64): an optional sign and one or more digits
ParseInt(s) ==
    LET signed == s # <<>> /\ Head(s) \in {"+", "-"}
        digits == IF signed THEN Tail(s) ELSE s
    IN  IF digits = <<>> \/ \E i \in 1..Len(digits) : digits[i] \notin Digits
          THEN [ok |-> FALSE, value |-> 0]
        ELSE [ok |-> TRUE,
              value |-> IF signed /\ Head(s) = "-" THEN 0 - DecimalValue(digits)
                        ELSE DecimalValue(digits)]

\* the loop body up to the AddCommand call: an extended line
\* ": <timestamp>:<duration>;<command>" gives its own timestamp (the current
\* time when it does not parse), any other line is a command of the current
\* time; a line is left out when it has no ";" or no command text
ParseHistoryLine(line, now) ==
    IF Len(line) >= 2 /\ SubSeq(line, 1, 2) = <<":", " ">>
      THEN LET parts == SplitN2(line, <<";">>)
           IN  IF Len(parts) < 2
                 THEN [ok |-> FALSE, command |-> <<>>, timestamp |-> now]
               ELSE LET tsInt == ParseInt(TrimSpace(Split(parts[1], <<":">>)[2]))
                    IN  [ok |-> TrimSpace(parts[2]) # <<>>,
                         command |-> TrimSpace(parts[2]),
                         timestamp |-> IF tsInt.ok THEN tsInt.value ELSE now]
    ELSE [ok |-> TrimSpace(line) # <<>>, command |-> TrimSpace(line), timestamp |-> now]

\* Manager.AddCommand from call to return, with no other writer in between
AddCommand(rows, c, wd, dbOk) ==
    LET g == AddCommandGuard(rows, c, wd, dbOk)
    IN  IF g.pc = "done" THEN [rows |-> rows, ret |-> g]
        ELSE AddCommandExec(rows, g, dbOk)

\* os.Hostname() and os.Getenv("USER") of the importing process
ImportHost == <<"h", "1">>

ImportUser == "u1"

\* the import run: the lines of the file, the index of the next line, the two
\* counters, and what became of each line that reached AddCommand
ImportRun(file, wd, rows) ==
    [pc |-> "import", file |-> file, next |-> 1, wd |-> wd, startRows |-> rows,
     importedCount |-> 0, skippedCount |-> 0, calls |-> <<>>]

\* the loop body with AddCommand's last argument true
importLine_NoDedup(run, rows, now, dbOk) ==
    LET l == ParseHistoryLine(run.file[run.next], now)
        directory == IF run.wd = GetwdErr THEN <<>> ELSE run.wd
        r == AddCommand(rows, Call(l.command, directory, "", "", ImportHost, ImportUser,
                                   l.timestamp, TRUE), run.wd, dbOk)
        outcome == IF r.ret.err THEN "failed"
                   ELSE IF r.ret.isDup THEN "skipped" ELSE "imported"
    IN  IF ~l.ok
          THEN [rows |-> rows, run |-> [run EXCEPT !.next = @ + 1]]
        ELSE [rows |-> r.rows,
              run |-> [run EXCEPT
                         !.next = @ + 1,
                         !.importedCount = IF outcome = "imported" THEN @ + 1 ELSE @,
                         !.skippedCount = IF outcome = "skipped" THEN @ + 1 ELSE @,
                         !.calls = Append(@, [line |-> run.next, command |-> l.command,
                                              timestamp |-> l.timestamp,
                                              outcome |-> outcome])]]

\* one iteration of the scanner loop of runImportHistory
importLine(run, rows, now, dbOk) ==
    LET l == ParseHistoryLine(run.file[run.next], now)
        directory == IF run.wd = GetwdErr THEN <<>> ELSE run.wd
        r == AddCommand(rows, Call(l.command, directory, "", "", ImportHost, ImportUser,
                                   l.timestamp, FALSE), run.wd, dbOk)
        outcome == IF r.ret.err THEN "failed"
                   ELSE IF r.ret.isDup THEN "skipped" ELSE "imported"
    IN  IF ~l.ok
          THEN [rows |-> rows, run |-> [run EXCEPT !.next = @ + 1]]
        ELSE [rows |-> r.rows,
              run |-> [run EXCEPT
                         !.next = @ + 1,
                         !.importedCount = IF outcome = "imported" THEN @ + 1 ELSE @,
                         !.skippedCount = IF outcome = "skipped" THEN @ + 1 ELSE @,
                         !.calls = Append(@, [line |-> run.next, command |-> l.command,
                                              timestamp |-> l.timestamp,
                                              outcome |-> outcome])]]

\* Manager.ListCommands: the commands of Query().GetEntries(); the rows are
\* kept beside the printed commands
ListCommands(rows, dbOk) ==
    LET r == GetEntries(Query, rows, dbOk)
    IN  [op |-> "list", entries |-> r.entries, err |-> r.err,
         commands |-> [i \in 1..Len(r.entries) |-> r.entries[i].Command]]

(***************************************************************************)
(* SpecImport: a store that earlier add calls filled is imported into from *)
(* a history file, line by line, and listed.                               *)
(***************************************************************************)
\* lines of a history file: extended lines with a timestamp, one of them with
\* trailing space, a plain line, a timestamp that does not parse, a line
\* with no ";" and a line with no command
HistoryLines ==
    { <<":", " ", "2", ":", "0", ";", "a", "b">>,
      <<":", " ", "1", ":", "0", ";", "a", "b", " ">>,
      <<"c", "d">>,
      <<":", " ", "x", ":", "0", ";", "c", "d">>,
      <<":", " ", "5">>,
      <<":", " ", "3", ":", "0", ";", " ">> }

RECURSIVE FilesOf(_)
FilesOf(n) ==
    IF n = 0 THEN {<<>>}
    ELSE {Append(f, l) : f \in FilesOf(n - 1), l \in HistoryLines}

HistoryFiles == UNION {FilesOf(n) : n \in 0..MaxLines}

\* time.Now() during the run
ImportClock == {30, 31}

\* what duckhist add recorded before the import
ImportSeedCalls ==
    { Call(<<"a", "b">>, DirA, "t1", "s1", ImportHost, ImportUser, 10, FALSE),
      Call(<<"c", "d">>, DirB, "t1", "s1", ImportHost, ImportUser, 20, FALSE) }

ImportStores ==
    {{}} \cup {AddCommand({}, c, c.directory, TRUE).rows : c \in ImportSeedCalls}

InitImport ==
    /\ store \in ImportStores
    /\ proc = [p \in Procs |-> Idle]
    /\ found = NoFind
    /\ sess = NoSession

\* the history file is opened and the store is opened for writing
ImportOpenStep ==
    \E file \in HistoryFiles, wd \in GetwdResults :
        /\ proc["p1"] = Idle
        /\ proc' = [proc EXCEPT !["p1"] = ImportRun(file, wd, store)]
        /\ UNCHANGED <<store, found, sess>>

ImportLineStep ==
    \E now \in ImportClock, dbOk \in BOOLEAN :
        /\ proc["p1"].pc = "import"
        /\ proc["p1"].next <= Len(proc["p1"].file)
        /\ LET r == importLine(proc["p1"], store, now, dbOk)
           IN  /\ store' = r.rows
               /\ proc' = [proc EXCEPT !["p1"] = r.run]
        /\ UNCHANGED <<found, sess>>

\* the scanner is at the end of the file: the summary line is printed
ImportReportStep ==
    /\ proc["p1"].pc = "import"
    /\ proc["p1"].next > Len(proc["p1"].file)
    /\ proc' = [proc EXCEPT !["p1"] = [@ EXCEPT !.pc = "reported"]]
    /\ UNCHANGED <<store, found, sess>>

\* duckhist list
ListStep ==
    \E dbOk \in BOOLEAN :
        /\ found' = ListCommands(store, dbOk)
        /\ UNCHANGED <<store, proc, sess>>

NextImport ==
    \/ ImportOpenStep
    \/ ImportLineStep
    \/ ImportReportStep
    \/ ListStep

SpecImport == InitImport /\ [][NextImport]_vars

\* the lines of a run's file that carry a command
CommandLines(run) ==
    {i \in 1..Len(run.file) : ParseHistoryLine(run.file[i], 0).ok}

\* C24: every parseable, non-empty command line of the file is inserted,
\* dedup bypassed: once the summary is printed the store has grown by one row
\* for each such line whose AddCommand call did not fail, repeated command
\* texts included, and the imported count is the number of those lines.
C24_EveryCommandLineInserted ==
    proc["p1"].pc = "reported" =>
        LET run == proc["p1"]
            succeeded == {k \in 1..Len(run.calls) : run.calls[k].outcome # "failed"}
        IN  /\ run.importedCount = Cardinality(succeeded)
            /\ Cardinality(store) = Cardinality(run.startRows) + Cardinality(succeeded)

\* the calls of a run that returned without error for command text t
Succeeded(run, t) ==
    {k \in 1..Len(run.calls) : run.calls[k].command = t /\ run.calls[k].outcome # "failed"}

C25_ListNewestExecutionFirst ==
    (found.op = "list" /\ ~found.err) =>
        \A i, j \in 1..Len(found.entries) :
            i < j => found.entries[i].Timestamp >= found.entries[j].Timestamp

(***************************************************************************)
(* SpecParse: ParseSearchQuery is applied to a typed text.                 *)
(***************************************************************************)
ParseStep ==
    \E query \in Queries :
        /\ found' = [op |-> "parse", query |-> query, parsed |-> ParseSearchQuery(query)]
        /\ UNCHANGED <<store, proc, sess>>

NextParse == ParseStep

SpecParse == Init /\ [][NextParse]_vars

\* the words a group of conditions stands for: a negated term is preceded by
\* the keyword
RECURSIVE WordsOfGroup(_)
WordsOfGroup(conditions) ==
    IF conditions = <<>> THEN <<>>
    ELSE (IF Head(conditions).IsNegated THEN <<KeywordNot, Head(conditions).Term>>
          ELSE <<Head(conditions).Term>>) \o WordsOfGroup(Tail(conditions))

\* a word sequence with every spelling of the keyword NOT in upper case
FoldNot(ws) == [i \in 1..Len(ws) |-> IF ToUpper(ws[i]) = KeywordNot THEN KeywordNot ELSE ws[i]]

\* the pieces between the " OR " separators that hold a word, in order
RECURSIVE NonBlank(_)
NonBlank(parts) ==
    IF parts = <<>> THEN <<>>
    ELSE (IF Fields(Head(parts)) = <<>> THEN <<>> ELSE <<Fields(Head(parts))>>)
           \o NonBlank(Tail(parts))

C27_LoneAndTrailingOrIgnored ==
    /\ (found.op = "parse" /\ found.query = <<"O", "R">>) => found.parsed = <<>>
    /\ (found.op = "parse" /\ found.query = <<"a", " ", "O", "R">>)
          => found.parsed = << <<SearchTermCondition(<<"a">>, FALSE)>> >>

(***************************************************************************)
(* SpecBuilder: a HistoryQuery is built with chained calls in any order    *)
(* and run with GetEntries.                                                *)
(***************************************************************************)
\* largest number of builder calls between Query() and GetEntries()
MaxCalls == 3

\* the arguments GetEntries hands to db.Query: q.args, and the limit last
BoundArgs(q) == IF q.limit # <<>> THEN Append(q.args, q.limit[1]) ELSE q.args

\* a query under construction: the builder, the number of calls made on it,
\* and the argument each call supplied for its placeholders, kept by the
\* clause the placeholder stands in (WHERE in order of the conditions,
\* ORDER BY, LIMIT)
Building(q, calls, where, order) ==
    [op |-> "build", q |-> q, calls |-> calls, where |-> where, order |-> order]

\* the builder after a call that appended a condition: the call's arguments
\* are those it added to q.args
AfterCondition(q2) ==
    Building(q2, found.calls + 1,
             found.where \o Drop(q2.args, Len(found.q.args) + 1), found.order)

BuilderStores ==
    { AddCommand(AddCommand({}, c1, c1.directory, TRUE).rows, c2, c2.directory, TRUE).rows :
        c1 \in FindCalls, c2 \in {c \in FindCalls : c.command = <<"a", "b">>} }

InitBuilder ==
    /\ store \in BuilderStores
    /\ proc = [p \in Procs |-> Idle]
    /\ found = NoFind
    /\ sess = NoSession

QueryStep ==
    /\ found = NoFind
    /\ found' = Building(Query, 0, <<>>, <<>>)
    /\ UNCHANGED <<store, proc, sess>>

InDirectoryStep ==
    \E dir \in Dirs :
        /\ found.op = "build"
        /\ found.calls < MaxCalls
        /\ found' = AfterCondition(InDirectory(found.q, dir))
        /\ UNCHANGED <<store, proc, sess>>

NotInDirectoryStep ==
    \E dir \in Dirs :
        /\ found.op = "build"
        /\ found.calls < MaxCalls
        /\ found' = AfterCondition(NotInDirectory(found.q, dir))
        /\ UNCHANGED <<store, proc, sess>>

SearchSimpleStep ==
    /\ found.op = "build"
    /\ found.calls < MaxCalls
    /\ found' = AfterCondition(SearchSimple(found.q, <<"a">>))
    /\ UNCHANGED <<store, proc, sess>>

SearchComplexStep ==
    \E query \in {<<"A">>, <<"N", "O", "T", " ", "a", " ", "O", "R", " ", "c">>} :
        /\ found.op = "build"
        /\ found.calls < MaxCalls
        /\ found' = AfterCondition(SearchComplex(found.q, ParseSearchQuery(query)))
        /\ UNCHANGED <<store, proc, sess>>

OrderByCurrentDirFirstStep ==
    \E dir \in Dirs :
        /\ found.op = "build"
        /\ found.calls < MaxCalls
        /\ found' = Building(OrderByCurrentDirFirst(found.q, dir), found.calls + 1,
                             found.where, <<dir>>)
        /\ UNCHANGED <<store, proc, sess>>

LimitStep ==
    \E n \in 0..1 :
        /\ found.op = "build"
        /\ found.calls < MaxCalls
        /\ found' = Building(Limit(found.q, n), found.calls + 1, found.where, found.order)
        /\ UNCHANGED <<store, proc, sess>>

GetEntriesStep ==
    \E dbOk \in BOOLEAN :
        /\ found.op = "build"
        /\ LET r == GetEntries(found.q, store, dbOk)
           IN  found' = [op |-> "entries", q |-> found.q, dbOk |-> dbOk,
                         placeholders |-> found.where \o found.order \o found.q.limit,
                         bound |-> BoundArgs(found.q),
                         entries |-> r.entries, err |-> r.err]
        /\ UNCHANGED <<store, proc, sess>>

NextBuilder ==
    \/ QueryStep
    \/ InDirectoryStep
    \/ NotInDirectoryStep
    \/ SearchSimpleStep
    \/ SearchComplexStep
    \/ OrderByCurrentDirFirstStep
    \/ LimitStep
    \/ GetEntriesStep

SpecBuilder == InitBuilder /\ [][NextBuilder]_vars

\* C29: whatever the builder calls were, GetEntries binds as many arguments
\* as the statement has placeholders, and each placeholder gets the argument
\* of the call that introduced it.
C29_PlaceholdersBoundToTheirArguments ==
    found.op = "entries" =>
        /\ Len(found.bound) = Len(found.placeholders)
        /\ found.bound = found.placeholders

\* C30: Enter or Tab on an empty view writes nothing and leaves the session
\* ready with its view as it was; a ready session ends only with Esc
\* (cancelled), with Enter or Tab pressed while the view has a row
\* (selected), or, before any key was handled, with the failure of the event
\* loop to start.
C30_ConfirmOnEmptyViewDoesNothing ==
    [][/\ (sess.state = "ready" /\ sess.table = <<>> /\ sess'.event \in {"enter", "tab"})
             => /\ sess'.state = "ready"
                /\ sess'.output = sess.output
                /\ sess'.table = sess.table
                /\ sess'.query = sess.query
       /\ (sess.state = "ready" /\ sess'.state # "ready")
             => \/ sess'.state = "cancelled" /\ sess'.event = "esc"
                \/ /\ sess'.state = "selected"
                   /\ sess'.event \in {"enter", "tab"}
                   /\ sess.table # <<>>
                   /\ Len(sess'.output) = Len(sess.output) + 1
                \/ /\ sess'.state = "failed"
                   /\ sess'.failure = "run"
                   /\ sess.event = "load"]_vars

\* Enter or Tab was pressed on an empty view that a typed text had produced
\* from a history with rows, and the session is still ready
C30_Witness ==
    /\ sess.state = "ready"
    /\ sess.event \in {"enter", "tab"}
    /\ sess.table = <<>>
    /\ sess.query # <<>>
    /\ sess.allHistory # <<>>
    /\ sess.output = <<>>

====
